---- MODULE Spec2Model ----
(***************************************************************************)
(* Sentinel voice assistant: the agent orchestration engine.               *)
(*                                                                         *)
(*   Spec       the turn state machine of backend/app/graph.py (agent,     *)
(*              safe_tool_node, tools_condition, the superstep limit set   *)
(*              by backend/app/main.py) for one graph run of one request.  *)
(*   RagSpec    the per-thread retriever registry of backend/app/graph.py  *)
(*              (process_document, rag_tool) with the callers of           *)
(*              backend/app/main.py.                                       *)
(*   OldRagSpec the single-document registry of                            *)
(*              _assets/old_code/langraph_rag_backend.py (process_document,*)
(*              remove_document, rag_tool).                                *)
(*   ActSpec    one Acting step (safe_tool_node) on the tool calls a model *)
(*              can write: tool names, arguments and their coercion.       *)
(*   ResolveSpec the graph run of Spec for every model name a request can  *)
(*              carry.                                                     *)
(*   SessionSpec the backend fallback of one VoiceAssistantAgent session   *)
(*              of backend/app/agents/plan_executor.py.                    *)
(*   BridgeSpec the graph run of Spec under stream_generator of            *)
(*              backend/app/main.py: the frames written to the response.   *)
(***************************************************************************)
EXTENDS Integers, Sequences, FiniteSets, TLC

VARIABLES
    \* ---- turn state machine (graph.py, main.py) ----
    pc,          \* node the graph run is at: Reasoning, Acting, Done, Failed
    messages,    \* ChatState["messages"] of the run
    step,        \* supersteps the run has executed
    raisedAt,    \* index of the tool call whose execution raised in the latest
                 \* Acting step (0: ToolNode returned normally)
    errFrames,   \* error text-delta frames written by stream_generator's handler
    model,       \* config["configurable"]["model"] of the run
    sent,        \* the list the latest Reasoning step passed to the model
    llmCalls,    \* the model calls of the latest Reasoning step, in order
    dispatched,  \* the tool invocations of the latest Acting step, in call order
    \* ---- retriever registry (graph.py) ----
    retrievers,  \* _retrievers_by_thread
    docInfo,     \* _doc_info_by_thread
    pgStore,     \* PGVector collections, by collection name
    uploads,     \* names of the files in uploads/
    ingest,      \* the process_document call in flight
    query,       \* the rag_tool call in flight
    nIngests,    \* process_document calls that built an index so far
    ingestedUnder, \* history: documents indexed under each thread id, in order
    \* ---- old single-document registry (old_code) ----
    old_retriever,   \* global retriever
    old_info,        \* global current_document_info
    old_owner,       \* thread whose session loaded the current document
    old_result,      \* result of the latest rag_tool call of each thread
    old_last,        \* the latest registry operation and the thread it ran for
    old_ops,         \* registry operations performed so far
    \* ---- VoiceAssistantAgent session (plan_executor.py) ----
    session,     \* the attributes of the session object
    attempts,    \* history: the backend generate calls of the session, in order
    reply,       \* the dict the latest process_query returned
    initFailed,  \* history: the primary failed to initialize in __init__
    switchedAt,  \* history: the process_query call in which lines 143-145 ran
                 \* (0: they have not run)
    nQueries,    \* process_query calls so far
    \* ---- response stream (main.py, stream_generator) ----
    frames,      \* the frames yielded to the response so far, in order
    bridge,      \* the generator: where it is (pc), has_content, and what the
                 \* emergency re-invocation of lines 261-273 did
    \* ---- process state shared by the chat requests (graph.py, mcp.py) ----
    boot         \* _chatbot, the tool cache of _mcp_client, and the requests

turnVars == <<pc, messages, step, raisedAt, errFrames, model, sent, llmCalls, dispatched>>
ragVars  == <<retrievers, docInfo, pgStore, uploads, ingest, query, nIngests,
              ingestedUnder>>
oldVars  == <<old_retriever, old_info, old_owner, old_result, old_last, old_ops>>
sessVars == <<session, attempts, reply, initFailed, switchedAt, nQueries>>
bridgeVars == <<frames, bridge>>
vars     == <<turnVars, ragVars, oldVars, sessVars, bridgeVars, boot>>

(***************************************************************************)
(* Bounds of the model and constants of the program.                       *)
(***************************************************************************)
\* most tool calls the model puts on one assistant message
MaxCalls == 2
\* config["recursion_limit"] of the chat operation
RecursionLimit == 15
\* round trips of one graph run (an assistant message with tool calls and the
\* Acting step that answers it) that are not the plain one of a single model
\* tool call answered with a result: several calls, a manual add_expense
\* recovery, a tool execution that raises, a tool result without content
MaxIrregular == 1
\* process_document calls that build an index
MaxIngests == 2
\* registry operations of the old backend
MaxOldOps == 4
\* process_query calls of one session
MaxQueries == 3
\* chat requests the process serves side by side
MaxRequests == 2
\* search_kwargs k of both retrievers
TopK == 4

(***************************************************************************)
(* Messages.  Every message is a record of the same shape; the fields a    *)
(* message type does not carry are empty.                                  *)
(***************************************************************************)
HumanMessage(text) ==
    [type |-> "human", content |-> text, tool_calls |-> <<>>, tool_call_id |-> ""]

AIMessage(text, calls) ==
    [type |-> "ai", content |-> text, tool_calls |-> calls, tool_call_id |-> ""]

ToolMessage(text, id) ==
    [type |-> "tool", content |-> text, tool_calls |-> <<>>, tool_call_id |-> id]

\* The texts a user message is drawn from: one without, one with an expense
\* keyword and an amount (the manual add_expense recovery needs both).
UserTexts == {"what is the date", "add expense 50 for lunch"}

HasExpenseIntent(text) == text = "add expense 50 for lunch"

LastHumanText(msgs) ==
    LET idx == {i \in 1..Len(msgs) : msgs[i].type = "human"}
    IN  IF idx = {} THEN ""
        ELSE msgs[CHOOSE i \in idx : \A j \in idx : j <= i].content

SystemMessage(text) ==
    [type |-> "system", content |-> text, tool_calls |-> <<>>, tool_call_id |-> ""]

(***************************************************************************)
(* Argument values of a tool call.  A value is a number or a string; a     *)
(* string is the sequence of its characters, so that parsing and           *)
(* formatting are computed on the text.                                    *)
(***************************************************************************)
Num(n) == [kind |-> "num", num |-> n, str |-> <<>>]

Str(s) == [kind |-> "str", num |-> 0, str |-> s]

DigitChars == <<"0", "1", "2", "3", "4", "5", "6", "7", "8", "9">>

UpperChars == <<"A", "D", "O", "T", "Y">>

LowerChars == <<"a", "d", "o", "t", "y">>

IsDigit(c) == \E d \in 1..10 : DigitChars[d] = c

DigitVal(c) == (CHOOSE d \in 1..10 : DigitChars[d] = c) - 1

AllDigits(s) == \A i \in 1..Len(s) : IsDigit(s[i])

RECURSIVE ParseInt(_)
ParseInt(s) ==
    IF s = <<>> THEN 0
    ELSE 10 * ParseInt(SubSeq(s, 1, Len(s) - 1)) + DigitVal(s[Len(s)])

\* n in decimal, left-padded with zeros to w characters
RECURSIVE FormatInt(_, _)
FormatInt(n, w) ==
    IF w = 0 THEN <<>>
    ELSE Append(FormatInt(n \div 10, w - 1), DigitChars[(n % 10) + 1])

\* str.lower(), on the letters the drawn texts use
LowerChar(c) ==
    IF \E i \in 1..Len(UpperChars) : UpperChars[i] = c
    THEN LowerChars[CHOOSE i \in 1..Len(UpperChars) : UpperChars[i] = c]
    ELSE c

Lower(s) == [i \in 1..Len(s) |-> LowerChar(s[i])]

\* str.count(c)
Count(s, c) == Cardinality({i \in 1..Len(s) : s[i] = c})

\* float(s) of line 427 returns for a text of decimal digits and raises
\* ValueError for a text with a letter in it or for the empty text
FloatParses(s) == Len(s) > 0 /\ AllDigits(s)

Float(s) == ParseInt(s)

\* datetime.now().strftime('%Y-%m-%d')
Today == <<"2", "0", "2", "6", "-", "1", "1", "-", "0", "1">>

TodayWord == <<"t", "o", "d", "a", "y">>

IsLeap(y) == (y % 4 = 0 /\ y % 100 # 0) \/ y % 400 = 0

DaysIn(m, y) ==
    IF m = 2 THEN (IF IsLeap(y) THEN 29 ELSE 28)
    ELSE IF m \in {4, 6, 9, 11} THEN 30 ELSE 31

ValidDate(y, m, d) == y >= 1 /\ m \in 1..12 /\ d \in 1..DaysIn(m, y)

\* the three fields of a text month/day/year, or <<>> when the text is not of
\* that shape
SlashFields(s) ==
    LET at == {i \in 1..Len(s) : s[i] = "/"}
    IN  IF Cardinality(at) # 2 THEN <<>>
        ELSE LET p1 == CHOOSE i \in at : \A j \in at : i <= j
                 p2 == CHOOSE i \in at : \A j \in at : j <= i
             IN  <<SubSeq(s, 1, p1 - 1), SubSeq(s, p1 + 1, p2 - 1),
                   SubSeq(s, p2 + 1, Len(s))>>

\* datetime.strptime(s, '%m/%d/%Y') returns (it raises ValueError otherwise)
StrptimeParses(s) ==
    LET f == SlashFields(s)
    IN  /\ f # <<>>
        /\ Len(f[1]) \in 1..2 /\ Len(f[2]) \in 1..2 /\ Len(f[3]) = 4
        /\ AllDigits(f[1]) /\ AllDigits(f[2]) /\ AllDigits(f[3])
        /\ ValidDate(ParseInt(f[3]), ParseInt(f[1]), ParseInt(f[2]))

\* strptime(s, '%m/%d/%Y').strftime('%Y-%m-%d')
SlashToISO(s) ==
    LET f == SlashFields(s)
    IN  FormatInt(ParseInt(f[3]), 4) \o <<"-">> \o FormatInt(ParseInt(f[1]), 2)
            \o <<"-">> \o FormatInt(ParseInt(f[2]), 2)

FixDate_defaulting(s) ==
    IF s # <<>> /\ Count(s, "-") # 2
    THEN IF Lower(s) = TodayWord THEN Today
         ELSE IF Count(s, "/") > 0 /\ StrptimeParses(s) THEN SlashToISO(s)
         ELSE Today
    ELSE s

\* lines 437-449: the value a date argument has after the fix
FixDate(s) ==
    IF s # <<>> /\ Count(s, "-") # 2
    THEN IF Lower(s) = TodayWord THEN Today
         ELSE IF Count(s, "/") > 0 /\ StrptimeParses(s) THEN SlashToISO(s)
         ELSE s
    ELSE s

\* lines 418-449: the arguments of a tool call after the parameter fixes
CoerceArgs(name, args) ==
    IF name = "add_expense"
    THEN IF "amount" \in DOMAIN args /\ args["amount"].kind = "str"
              /\ FloatParses(args["amount"].str)
         THEN [args EXCEPT !["amount"] = Num(Float(args["amount"].str))]
         ELSE args
    ELSE IF name \in {"list_expenses", "summarize", "net_cashflow"}
    THEN [p \in DOMAIN args |->
            IF p \in {"start_date", "end_date", "date"} /\ args[p].kind = "str"
            THEN Str(FixDate(args[p].str))
            ELSE args[p]]
    ELSE args

CoerceCalls(calls) ==
    [i \in 1..Len(calls) |->
        [calls[i] EXCEPT !.args = CoerceArgs(calls[i].name, calls[i].args)]]

\* The ids the model gives the n tool calls of the assistant message it writes
\* as message number k of the run.
SearchArgs == [p \in {"query"} |-> Str(<<"d", "a", "t", "e">>)]

ModelCalls(k, n) ==
    [i \in 1..n |->
        [id |-> "call_" \o ToString(k) \o "_" \o ToString(i), name |-> "search_tool",
         args |-> SearchArgs]]

\* lines 363-375, for the user text "add expense 50 for lunch"
ManualArgs ==
    [p \in {"amount", "description", "date", "category"} |->
        CASE p = "amount" -> Num(50)
          [] p = "description" -> Str(<<"l", "u", "n", "c", "h">>)
          [] p = "date" -> Str(Today)
          [] OTHER -> Str(<<"g", "e", "n", "e", "r", "a", "l">>)]

ManualCall == [id |-> "manual_expense_add", name |-> "add_expense", args |-> ManualArgs]

(***************************************************************************)
(* The tool sets.  agent binds the static tools and, for a finance text,   *)
(* the MCP tools; safe_tool_node gives ToolNode the static tools and the   *)
(* MCP tools whenever the MCP client has any.                              *)
(***************************************************************************)
StaticTools == {"rag_tool", "search_tool"}

\* tools of the two MCP servers: the maths server and the expense server
McpTools == {"add", "subtract", "multiply", "divide", "modulus", "power",
             "add_expense", "list_expenses", "summarize", "net_cashflow"}

\* lines 405-412; mcpUp: the MCP client has tools
ActiveTools(mcpUp) == StaticTools \cup (IF mcpUp THEN McpTools ELSE {})

(***************************************************************************)
(* tools_condition: the conditional edge out of agent.                     *)
(***************************************************************************)
HasToolCalls(msg) == msg.type = "ai" /\ Len(msg.tool_calls) > 0

tools_condition_any_ai(msgs) ==
    IF Len(msgs) > 0 /\ msgs[Len(msgs)].type = "ai" THEN "Acting" ELSE "Done"

tools_condition(msgs) ==
    IF Len(msgs) > 0 /\ HasToolCalls(msgs[Len(msgs)]) THEN "Acting" ELSE "Done"

(***************************************************************************)
(* The superstep limit of the graph run: a node runs only while fewer than *)
(* recursion_limit supersteps have run.                                    *)
(***************************************************************************)
WithinDefaultLimit(s) == s < 25

WithinLimit(s) == s < RecursionLimit

(***************************************************************************)
(* Tool-group gating of agent, lines 242-271: the MCP tools are asked for  *)
(* when the text of the last human message of the state holds one of the   *)
(* twenty keywords.                                                        *)
(***************************************************************************)
\* line 247 on the user texts of the model: "expense" is a keyword, and no
\* keyword is a substring of "what is the date"
HasFinanceKeyword(text) == text = "add expense 50 for lunch"

LoadMcp_any_message(msgs) ==
    \E i \in 1..Len(msgs) : msgs[i].type = "human" /\ HasFinanceKeyword(msgs[i].content)

\* lines 242-247
LoadMcp(msgs) == HasFinanceKeyword(LastHumanText(msgs))

(***************************************************************************)
(* agent: one Reasoning step.  The model call either answers (with n >= 0  *)
(* tool calls) or fails; a failure is turned into an assistant message by  *)
(* one of the three recovery branches.                                     *)
(***************************************************************************)
AgentOutcomes == {"response", "empty", "manual", "retry_ok", "error", "raise"}

\* what the text of a failed model call holds: the two phrases line 333 looks
\* for (validation), the word line 382 looks for (function)
ErrorTexts == [validation : BOOLEAN, function : BOOLEAN]

NoError == [validation |-> FALSE, function |-> FALSE]

\* the model names a chat request can carry; NoModel is a null model field
NoModel == "<none>"

ChatRequestDefaultModel == "qwen/qwen3-32b"

RequestModels == {"llama-3.3-70b-versatile", "grok-4.1-fast", ChatRequestDefaultModel,
                  "gemini-pro", NoModel}

model_mapping ==
    [m \in {"llama-3.3-70b-versatile", "grok-4.1-fast"} |->
        IF m = "grok-4.1-fast" THEN "llama-3.1-70b-versatile"
        ELSE "llama-3.3-70b-versatile"]

ResolveModel_passthrough(m) ==
    IF m \in DOMAIN model_mapping THEN model_mapping[m] ELSE m

\* line 298: model_mapping.get(selected_model, "llama-3.3-70b-versatile")
ResolveModel(m) ==
    IF m \in DOMAIN model_mapping THEN model_mapping[m] ELSE "llama-3.3-70b-versatile"

\* lines 305-313: tool messages without content are left out
Validate(msgs) == SelectSeq(msgs, LAMBDA m : ~(m.type = "tool" /\ m.content = ""))

\* max_messages of line 316
MaxMessages == 10

Truncate_oldest(v) ==
    IF Len(v) > MaxMessages THEN SubSeq(v, 1, MaxMessages) ELSE v

\* lines 317-319
Truncate(v) ==
    IF Len(v) > MaxMessages THEN SubSeq(v, Len(v) - MaxMessages + 1, Len(v)) ELSE v

\* line 321: the list passed to the model
ModelInput(msgs) == <<SystemMessage("system_prompt")>> \o Truncate(Validate(msgs))

\* the model calls of one agent step: the call with the tools bound and, when
\* lines 382-390 run, the call without them; rejected: the call raised with a
\* text that passes the test of line 382
\* load_mcp: the decision of line 247 the step took before the call
LlmCall(bound, backend, ok, err, load) ==
    [tools |-> bound, model |-> backend, ok |-> ok, rejected |-> ~ok /\ err.function,
     load_mcp |-> load]

LlmCalls(outcome, err, backend, load) ==
    CASE outcome \in {"response", "empty"} ->
                                 <<LlmCall(TRUE, backend, TRUE, NoError, load)>>
      [] outcome = "manual"   -> <<LlmCall(TRUE, backend, FALSE, err, load)>>
      [] outcome = "retry_ok" -> <<LlmCall(TRUE, backend, FALSE, err, load),
                                   LlmCall(FALSE, backend, TRUE, NoError, load)>>
      [] outcome = "error" /\ err.function ->
                                 <<LlmCall(TRUE, backend, FALSE, err, load),
                                   LlmCall(FALSE, backend, FALSE, NoError, load)>>
      [] outcome = "error" /\ ~err.function ->
                                 <<LlmCall(TRUE, backend, FALSE, err, load)>>
      [] OTHER                -> <<>>

AgentResponse(msgs, outcome, n) ==
    CASE outcome = "response" -> AIMessage("text", ModelCalls(Len(msgs) + 1, n))
      [] outcome = "empty"    -> AIMessage("", <<>>)
      [] outcome = "manual"   -> AIMessage("I'll add that expense for you.", <<ManualCall>>)
      [] outcome = "retry_ok" -> AIMessage("text", <<>>)
      [] OTHER                -> AIMessage("I encountered an error", <<>>)

\* stream_generator, lines 280-286: the handler writes one error frame
StreamErrorFrames(n) == n + 1

\* the round trips of the run so far that MaxIrregular counts
Irregular(msgs) ==
    Cardinality({i \in 1..Len(msgs) :
        /\ msgs[i].type = "ai"
        /\ \/ Len(msgs[i].tool_calls) > 1
           \/ msgs[i].tool_calls = <<ManualCall>>
           \/ /\ Len(msgs[i].tool_calls) = 1
              /\ i < Len(msgs)
              /\ msgs[i + 1].content # "result"})

\* outcome "raise": ChatGroq(...) of line 302 or bind_tools of line 303 raises,
\* outside the try of line 324; the exception leaves the graph run and the
\* handler of stream_generator writes its error frame.
\* The other outcomes: the call of line 325 returns (response; empty: with
\* neither text nor tool calls), or raises with
\* the text err and lines 333-377 answer (manual), lines 382-388 answer
\* (retry_ok), or line 394 answers (error).
agent(outcome, n, err) ==
    /\ pc = "Reasoning"
    /\ WithinLimit(step)
    /\ outcome # "response" => n = 0
    /\ outcome \in {"response", "empty", "raise"} => err = NoError
    /\ LET input == ModelInput(messages)
           manual == err.validation /\ HasExpenseIntent(LastHumanText(Tail(input)))
       IN  /\ outcome = "manual" => manual
           /\ outcome = "retry_ok" => ~manual /\ err.function
           /\ outcome = "error" => ~manual
           /\ IF outcome = "raise"
              THEN /\ pc' = "Failed"
                   /\ errFrames' = StreamErrorFrames(errFrames)
                   /\ sent' = <<>>
                   /\ UNCHANGED messages
              ELSE /\ messages' = Append(messages, AgentResponse(messages, outcome, n))
                   /\ pc' = tools_condition(messages')
                   /\ sent' = input
                   /\ UNCHANGED errFrames
    /\ llmCalls' = LlmCalls(outcome, err, ResolveModel(model), LoadMcp(messages))
    /\ step' = step + 1
    /\ raisedAt' = 0
    /\ UNCHANGED <<model, dispatched>>

(***************************************************************************)
(* safe_tool_node: one Acting step.  ToolNode either returns one tool      *)
(* message per call, in call order, or an exception leaves it; the handler *)
(* of safe_tool_node then answers with a single tool message.              *)
(***************************************************************************)
\* The values the content of a tool message can hold when ToolNode returns:
\* kind is the Python type lines 456-473 tell apart, text the string the
\* branch of that kind writes (the value itself, str(list),
\* json.dumps(dict, indent=2), str(value)).
RawResults ==
    { [kind |-> "str", text |-> ""], [kind |-> "str", text |-> "result"],
      [kind |-> "list", text |-> "[]"], [kind |-> "list", text |-> "['a', 'b']"],
      [kind |-> "dict", text |-> "{}"], [kind |-> "dict", text |-> "{\n  \"a\": 1\n}"],
      [kind |-> "other", text |-> "0"], [kind |-> "other", text |-> "42"] }

FixContent_unfixed(v) == v.text

\* content of a tool message after lines 456-473; line 458 takes every value
\* that is false in Python: "", [], {}, 0
FixContent(v) ==
    IF v.text \in {"", "[]", "{}", "0"} THEN "Tool executed successfully" ELSE v.text

\* ToolNode's answer: one tool message per call, in call order; a call whose
\* name is not a tool of the node is answered with an error text instead of
\* being run; e is the call whose tool returned the content raw instead of a
\* plain text (0: none did)
InvalidToolText == "Error: not a valid tool"

ToolNodeMessages(calls, e, raw, active) ==
    [i \in 1..Len(calls) |->
        IF calls[i].name \in active
        THEN ToolMessage(FixContent(IF i = e THEN raw
                                    ELSE [kind |-> "str", text |-> "result"]),
                         calls[i].id)
        ELSE ToolMessage(FixContent([kind |-> "str", text |-> InvalidToolText]),
                         calls[i].id)]

\* the tools ToolNode invokes, with the arguments the model gave (given) and
\* the arguments the tool is called with (args)
Invocations(given, calls, active) ==
    SelectSeq([i \in 1..Len(calls) |->
                  [id |-> calls[i].id, name |-> calls[i].name,
                   given |-> given[i].args, args |-> calls[i].args]],
              LAMBDA c : c.name \in active)

FailureMessages_silent(calls, k) ==
    <<ToolMessage("", IF Len(calls) > 0 THEN calls[1].id ELSE "unknown")>>

\* the handler of lines 476-490: k is the call whose execution raised
FailureMessages(calls, k) ==
    <<ToolMessage("Tool execution failed",
                  IF Len(calls) > 0 THEN calls[1].id ELSE "unknown")>>

\* Lines 418-449 rewrite the arguments inside the tool calls of the last
\* message, which is the message ToolNode then reads the calls from.
safe_tool_node(k, e, raw, mcpUp) ==
    /\ pc = "Acting"
    /\ WithinLimit(step)
    /\ LET given == messages[Len(messages)].tool_calls
           calls == CoerceCalls(given)
           active == ActiveTools(mcpUp)
           run == {i \in 1..Len(calls) : calls[i].name \in active}
       IN  /\ k \in run \cup {0}
           /\ e \in run \cup {0}
           /\ k # 0 => e = 0
           /\ e = 0 => raw.text = ""
           /\ messages' = [messages EXCEPT ![Len(messages)].tool_calls = calls] \o
                (IF k = 0 THEN ToolNodeMessages(calls, e, raw, active)
                          ELSE FailureMessages(calls, k))
           /\ dispatched' = Invocations(given, calls, active)
    /\ raisedAt' = k
    /\ pc' = "Reasoning"
    /\ step' = step + 1
    /\ UNCHANGED <<errFrames, model, sent, llmCalls>>

(***************************************************************************)
(* The run is out of supersteps with a node still to run: the graph raises *)
(* GraphRecursionError out of astream_events and the handler of            *)
(* stream_generator writes one error text-delta frame.                     *)
(***************************************************************************)
recursion_error ==
    /\ pc \in {"Reasoning", "Acting"}
    /\ ~WithinLimit(step)
    /\ pc' = "Failed"
    /\ errFrames' = StreamErrorFrames(errFrames)
    /\ UNCHANGED <<messages, step, raisedAt, model, sent, llmCalls, dispatched>>

(***************************************************************************)
(* stream_generator of main.py: the frames of the response.  A frame is a  *)
(* record: tag is the prefix of its line ("0" text delta, "9" tool start,  *)
(* "a" tool result), id the toolCallId of a tool frame, text the           *)
(* characters of a text delta.  A character is written <<k, i>>: character *)
(* i of the content of message k of the run (k = 0: the text of the        *)
(* handler of lines 280-286).                                              *)
(***************************************************************************)
\* number of characters of the contents the messages of the model carry
TextLen(content) ==
    CASE content = "" -> 0
      [] content = "I'll add that expense for you." -> 30
      [] content = "I encountered an error" -> 65
      [] content = "old answer" -> 120
      [] OTHER -> 60

\* line 251
chunk_size == 50

\* characters of one on_chat_model_stream chunk
StreamPieceLen == 30

\* lines 252-254 and 194: the text-delta frames of the characters from..upto
\* of message k, cut every size characters
RECURSIVE TextFrames(_, _, _, _)
TextFrames(k, from, upto, size) ==
    IF from > upto THEN <<>>
    ELSE LET to == IF from + size - 1 < upto THEN from + size - 1 ELSE upto
         IN  <<[tag |-> "0", id |-> "",
                text |-> [i \in 1..(to - from + 1) |-> <<k, from + i - 1>>]]>>
             \o TextFrames(k, to + 1, upto, size)

\* lines 285-286
ErrorFrame == [tag |-> "0", id |-> "", text |-> <<<<0, 1>>>>]

\* run_id of the tool run of invocation i of superstep s
RunId(s, i) == "run_" \o ToString(s) \o "_" \o ToString(i)

ToolFrames_result_first(ran, failed, s, overlap) ==
    LET start(i) == [tag |-> "9", id |-> RunId(s, i), text |-> <<>>]
        end(i) == IF ran[i].id = failed THEN <<>>
                  ELSE <<[tag |-> "a", id |-> RunId(s, i), text |-> <<>>]>>
        RECURSIVE Cat(_)
        Cat(i) == IF i > Len(ran) THEN <<>>
                  ELSE end(i) \o (IF overlap THEN <<>> ELSE <<start(i)>>) \o Cat(i + 1)
    IN  Cat(1) \o (IF overlap THEN [i \in 1..Len(ran) |-> start(i)] ELSE <<>>)

\* lines 197-231: the frames of the on_tool_start and on_tool_end events of
\* the tool runs of one Acting step, in the order of the events.  ran: the
\* invocations; failed: id of the call whose tool raised (it has no
\* on_tool_end); overlap: the tools run side by side, every one is started
\* before the first ends (otherwise one after the other).
ToolFrames(ran, failed, s, overlap) ==
    LET start(i) == [tag |-> "9", id |-> RunId(s, i), text |-> <<>>]
        end(i) == IF ran[i].id = failed THEN <<>>
                  ELSE <<[tag |-> "a", id |-> RunId(s, i), text |-> <<>>]>>
        RECURSIVE Cat(_)
        Cat(i) == IF i > Len(ran) THEN <<>>
                  ELSE (IF overlap THEN <<>> ELSE <<start(i)>>) \o end(i) \o Cat(i + 1)
    IN  (IF overlap THEN [i \in 1..Len(ran) |-> start(i)] ELSE <<>>) \o Cat(1)

\* lines 245-248 and 264-267: the last assistant message with content (0: none)
FallbackIndex(msgs) ==
    LET idx == {i \in 1..Len(msgs) : msgs[i].type = "ai" /\ msgs[i].content # ""}
    IN  IF idx = {} THEN 0 ELSE CHOOSE i \in idx : \A j \in idx : j <= i

\* a Reasoning step under the event loop of lines 176-194: the chunks of a
\* model call that answers are yielded as they come; the messages lines
\* 348-377 and 394 build are not streamed.  An exception of the step leaves
\* astream_events and the handler of lines 280-286 writes its frame.
stream_agent(outcome, n, err) ==
    /\ bridge.pc = "loop"
    /\ agent(outcome, n, err)
    /\ LET k == Len(messages) + 1
           streamed == IF outcome \in {"response", "empty", "retry_ok"}
                       THEN TextFrames(k, 1, TextLen(messages'[k].content),
                                       StreamPieceLen)
                       ELSE <<>>
       IN  IF outcome = "raise"
           THEN /\ frames' = Append(frames, ErrorFrame)
                /\ bridge' = [bridge EXCEPT !.pc = "closed"]
           ELSE /\ frames' = frames \o streamed
                /\ bridge' = [bridge EXCEPT
                                 !.has_content = @ \/ streamed # <<>>,
                                 !.paths = IF streamed # <<>> THEN @ \cup {"live"} ELSE @]

\* an Acting step under the event loop, lines 197-231
stream_tools(k, e, raw, mcpUp, overlap) ==
    /\ bridge.pc = "loop"
    /\ safe_tool_node(k, e, raw, mcpUp)
    /\ overlap => Len(dispatched') > 1
    /\ frames' = frames \o
           ToolFrames(dispatched',
                      IF k = 0 THEN "" ELSE messages[Len(messages)].tool_calls[k].id,
                      step + 1, overlap)
    /\ UNCHANGED bridge

\* GraphRecursionError leaves astream_events: lines 280-286
stream_error ==
    /\ bridge.pc = "loop"
    /\ recursion_error
    /\ frames' = Append(frames, ErrorFrame)
    /\ bridge' = [bridge EXCEPT !.pc = "closed"]

\* what the second graph run of line 262 does, on the messages of the
\* request and with every tool call its model asks for executed: it raises, or it returns a
\* message list whose last assistant message is empty, or one with a text
EmergencyOutcomes == {"raise", "empty", "text"}

FallbackRuns_always(has_content) == TRUE

\* line 242: the synthesized fallback is tried when no chunk was yielded
FallbackRuns(has_content) == ~has_content

\* The graph run has ended: lines 234-278.  final_messages is the message
\* list of the run.  Nothing is yielded after the fallbacks: the generator
\* returns and the response is closed.
stream_end(emergency) ==
    /\ bridge.pc = "loop"
    /\ pc = "Done"
    /\ LET f == IF FallbackRuns(bridge.has_content) THEN FallbackIndex(messages) ELSE 0
           quiet == ~bridge.has_content /\ f = 0
           k == Len(messages) + 1
       IN  /\ (emergency = "none") <=> ~quiet
           /\ frames' = frames \o
                (IF f # 0
                 THEN TextFrames(f, 1, TextLen(messages[f].content), chunk_size)
                 ELSE IF emergency = "text"
                      THEN TextFrames(k, 1, TextLen("text"), TextLen("text"))
                      ELSE <<>>)
           /\ bridge' = [pc |-> "closed",
                         has_content |-> bridge.has_content \/ f # 0 \/ emergency = "text",
                         emergency |-> emergency,
                         paths |-> bridge.paths
                                   \cup (IF f # 0 THEN {"chunked"} ELSE {})
                                   \cup (IF emergency = "text" THEN {"emergency"} ELSE {}),
                         runs |-> IF emergency = "none" THEN bridge.runs
                                  ELSE bridge.runs + 1]
    /\ UNCHANGED turnVars

\* The client closes the connection while the response is open: the server
\* stops the generator, and the graph run, which is awaited inside the
\* generator (line 176) and nowhere else, stops with it.
client_disconnect ==
    /\ bridge.pc = "loop"
    /\ bridge' = [bridge EXCEPT !.pc = "cancelled"]
    /\ pc' = IF pc = "Done" THEN pc ELSE "Cancelled"
    /\ UNCHANGED <<messages, step, raisedAt, errFrames, model, sent, llmCalls,
                   dispatched, frames>>

(***************************************************************************)
(* Retriever registry of graph.py.                                         *)
(***************************************************************************)
ThreadIds == {"thread_a", "default_thread"}

\* the documents a request uploads, and the chunks split_documents cuts each into
Docs == {"a.pdf", "b.pdf"}

NumChunks(d) == IF d = "a.pdf" THEN 2 ELSE 5

Chunks(d) == [i \in 1..NumChunks(d) |-> [doc |-> d, idx |-> i]]

\* query texts, and the similarity of a chunk to a query
Queries == {"opening"}

Score(q, c) == IF q = "opening" THEN 0 - c.idx ELSE c.idx

\* dict.get(key) and dict[key] = value of the module-level maps
DictGet(d, k, default) == IF k \in DOMAIN d THEN d[k] ELSE default

DictSet(d, k, v) == [x \in DOMAIN d \cup {k} |-> IF x = k THEN v ELSE d[x]]

NoRetriever == [kind |-> "none", coll |-> "", chunks |-> <<>>, gen |-> 0]

NoInfo == [filename |-> "", chunks |-> 0, thread_id |-> "", gen |-> 0]

CollectionName(thread_id) == "sentinel_thread_" \o thread_id

\* similarity search: the k best chunks of a store, best first, earlier rows
\* of the store first among equals
RECURSIVE SimilaritySearch(_, _, _, _)
SimilaritySearch(store, q, taken, k) ==
    LET cand == (1..Len(store)) \ taken
    IN  IF k = 0 \/ cand = {} THEN <<>>
        ELSE LET best == CHOOSE i \in cand : \A j \in cand :
                             \/ Score(q, store[i]) > Score(q, store[j])
                             \/ Score(q, store[i]) = Score(q, store[j]) /\ i <= j
             IN  <<store[best]>> \o SimilaritySearch(store, q, taken \cup {best}, k - 1)

\* PGVector.from_documents on a collection name: the rows are added to the
\* collection of that name (the call passes no pre_delete_collection)
PGFromDocuments(store, coll, chunks) ==
    DictSet(store, coll, DictGet(store, coll, <<>>) \o chunks)

\* retriever.invoke(query): a PGVector retriever searches its collection as it
\* is now, a FAISS retriever the in-memory index it was built with
RetrieverInvoke(r, store, q) ==
    IF r.kind = "pg" THEN SimilaritySearch(DictGet(store, r.coll, <<>>), q, {}, TopK)
    ELSE SimilaritySearch(r.chunks, q, {}, TopK)

(***************************************************************************)
(* process_document(pdf_path, thread_id).  Lines 119-160 build the         *)
(* retriever and the info record, line 162 and line 163 store them.  The   *)
(* function runs on the event loop without awaiting, so no two calls of it *)
(* overlap; rag_tool runs on an executor thread and does overlap it.       *)
(***************************************************************************)
IdleIngest ==
    [pc |-> "idle", thread |-> "", retriever |-> NoRetriever, info |-> NoInfo,
     result |-> "none"]

BuildOutcomes == {"pgvector", "faiss", "failed"}

BuiltRetriever(outcome, t, d, gen) ==
    IF outcome = "pgvector"
    THEN [kind |-> "pg", coll |-> CollectionName(t), chunks |-> <<>>, gen |-> gen]
    ELSE [kind |-> "faiss", coll |-> "", chunks |-> Chunks(d), gen |-> gen]

\* basename of the path the callers of main.py save an upload under
FileName(t, d) == t \o "_" \o d

BuiltInfo(t, d, gen) ==
    [filename |-> FileName(t, d), chunks |-> NumChunks(d), thread_id |-> t, gen |-> gen]

StoreAfterBuild_partial(store, outcome, t, d) ==
    IF outcome \in {"pgvector", "failed"}
    THEN PGFromDocuments(store, CollectionName(t), Chunks(d))
    ELSE store

\* lines 136-153: the rows of the store after the build.  from_documents
\* embeds every chunk and then inserts the rows in one transaction, so a call
\* that raises has inserted nothing
StoreAfterBuild(store, outcome, t, d) ==
    IF outcome = "pgvector"
    THEN PGFromDocuments(store, CollectionName(t), Chunks(d))
    ELSE store

process_document_build(t, d, outcome) ==
    /\ ingest.pc = "idle"
    /\ pgStore' = StoreAfterBuild(pgStore, outcome, t, d)
    /\ IF outcome = "failed"
       THEN /\ ingest' = [IdleIngest EXCEPT !.result = "failure"]
            /\ UNCHANGED <<nIngests, ingestedUnder>>
       ELSE /\ nIngests < MaxIngests
            /\ nIngests' = nIngests + 1
            /\ ingest' = [pc |-> "built", thread |-> t,
                          retriever |-> BuiltRetriever(outcome, t, d, nIngests + 1),
                          info |-> BuiltInfo(t, d, nIngests + 1),
                          result |-> "none"]
            /\ ingestedUnder' = DictSet(ingestedUnder, t,
                                        Append(DictGet(ingestedUnder, t, <<>>), d))
    /\ UNCHANGED <<retrievers, docInfo, query>>

\* line 162
process_document_set_retriever ==
    /\ ingest.pc = "built"
    /\ retrievers' = DictSet(retrievers, ingest.thread, ingest.retriever)
    /\ ingest' = [ingest EXCEPT !.pc = "retriever_set"]
    /\ UNCHANGED <<docInfo, pgStore, uploads, query, nIngests, ingestedUnder>>

\* line 163 and the return
process_document_set_info ==
    /\ ingest.pc = "retriever_set"
    /\ docInfo' = DictSet(docInfo, ingest.thread, ingest.info)
    /\ ingest' = [IdleIngest EXCEPT !.result = "success"]
    /\ UNCHANGED <<retrievers, pgStore, uploads, query, nIngests, ingestedUnder>>

\* upload_file / process_document_endpoint of main.py: write the file, ingest it
upload_file(t, d, outcome) ==
    /\ uploads' = uploads \cup {FileName(t, d)}
    /\ process_document_build(t, d, outcome)

\* chat of main.py, lines 117-128: a PDF attachment already on disk is ingested again
chat_reprocess(t, d, outcome) ==
    /\ FileName(t, d) \in uploads
    /\ UNCHANGED uploads
    /\ process_document_build(t, d, outcome)

(***************************************************************************)
(* rag_tool(query, config).  safe_tool_node sets the context variable from *)
(* the run config before ToolNode calls the tool.                          *)
(***************************************************************************)
\* a run config without a thread id
Absent == "<absent>"

ConfigThreadIds == ThreadIds \cup {Absent, ""}

\* safe_tool_node, lines 400-401: the value it stores in _current_thread_id
ContextThreadId(cfg) == IF cfg = Absent THEN "default_thread" ELSE cfg

RagThreadId_default_only(cfg, ctx) == "default_thread"

\* rag_tool, lines 74-78
RagThreadId(cfg, ctx) == IF cfg # Absent /\ cfg # "" THEN cfg ELSE ctx

IdleQuery ==
    [pc |-> "idle", caller |-> "", thread |-> "", text |-> "",
     retriever |-> NoRetriever, info |-> NoInfo, out |-> [kind |-> "none", filename |-> "", count |-> 0, excerpts |-> <<>>]]

Sentinel == [kind |-> "sentinel", filename |-> "", count |-> 0, excerpts |-> <<>>]

RagResult_unchecked(r, info, store, q, invoked) ==
    IF ~invoked \/ r = NoRetriever
    THEN [kind |-> "error", filename |-> "", count |-> 0, excerpts |-> <<>>]
    ELSE LET docs == RetrieverInvoke(r, store, q)
         IN  [kind |-> "found", filename |-> info.filename, count |-> Len(docs),
              excerpts |-> docs]

\* rag_tool, lines 84-105: the text it returns, from the retriever and the info
\* it read; invoked says whether retriever.invoke returned or raised
RagResult(r, info, store, q, invoked) ==
    IF r = NoRetriever \/ info = NoInfo THEN Sentinel
    ELSE IF ~invoked
    THEN [kind |-> "error", filename |-> "", count |-> 0, excerpts |-> <<>>]
    ELSE LET docs == RetrieverInvoke(r, store, q)
         IN  IF docs = <<>>
             THEN [kind |-> "empty", filename |-> info.filename, count |-> 0,
                   excerpts |-> <<>>]
             ELSE [kind |-> "found", filename |-> info.filename, count |-> Len(docs),
                   excerpts |-> SubSeq(docs, 1, IF Len(docs) < 4 THEN Len(docs) ELSE 4)]

rag_tool_resolve(cfg, q) ==
    /\ query.pc \in {"idle", "done"}
    /\ query' = [IdleQuery EXCEPT !.pc = "resolved",
                                  !.caller = ContextThreadId(cfg),
                                  !.thread = RagThreadId(cfg, ContextThreadId(cfg)),
                                  !.text = q]
    /\ UNCHANGED <<retrievers, docInfo, pgStore, uploads, ingest, nIngests, ingestedUnder>>

\* line 81
rag_tool_get_retriever ==
    /\ query.pc = "resolved"
    /\ query' = [query EXCEPT !.pc = "read_retriever",
                              !.retriever = DictGet(retrievers, query.thread, NoRetriever)]
    /\ UNCHANGED <<retrievers, docInfo, pgStore, uploads, ingest, nIngests, ingestedUnder>>

\* line 82
rag_tool_get_info ==
    /\ query.pc = "read_retriever"
    /\ query' = [query EXCEPT !.pc = "read_info",
                              !.info = DictGet(docInfo, query.thread, NoInfo)]
    /\ UNCHANGED <<retrievers, docInfo, pgStore, uploads, ingest, nIngests, ingestedUnder>>

\* lines 84-105
rag_tool_return(invoked) ==
    /\ query.pc = "read_info"
    /\ query' = [query EXCEPT !.pc = "done",
                              !.out = RagResult(query.retriever, query.info, pgStore,
                                                query.text, invoked)]
    /\ UNCHANGED <<retrievers, docInfo, pgStore, uploads, ingest, nIngests, ingestedUnder>>

\* the generator before its first event: nothing yielded, has_content False
\* paths: the ways text of the assistant was written to the response so far
\* (live: line 194, chunked: lines 251-254, emergency: line 269); runs: the
\* graph runs the request started (line 176, line 262)
OpenStream ==
    [pc |-> "loop", has_content |-> FALSE, emergency |-> "none", paths |-> {},
     runs |-> 1]

\* the state of a graph run on the message list msgs of a request
TurnStartFrom(msgs, m) ==
    /\ pc = "Reasoning"
    /\ messages = msgs
    /\ step = 0
    /\ raisedAt = 0
    /\ errFrames = 0
    /\ model = m
    /\ sent = <<>>
    /\ llmCalls = <<>>
    /\ dispatched = <<>>
    /\ frames = <<>>
    /\ bridge = OpenStream

TurnStartWith(text, m) == TurnStartFrom(<<HumanMessage(text)>>, m)

\* a request that leaves the model field to its default
TurnStart(text) == TurnStartWith(text, ChatRequestDefaultModel)

RagInit ==
    /\ retrievers = [t \in {} |-> NoRetriever]
    /\ docInfo = [t \in {} |-> NoInfo]
    /\ pgStore = [c \in {} |-> <<>>]
    /\ uploads = {}
    /\ ingest = IdleIngest
    /\ query = IdleQuery
    /\ nIngests = 0
    /\ ingestedUnder = [t \in {} |-> <<>>]

(***************************************************************************)
(* The registry of old_code/langraph_rag_backend.py: one global retriever  *)
(* and one global current_document_info, whatever thread the chat is on.   *)
(***************************************************************************)
\* rag_tool of the old backend, lines 112-137
OldRagTool(r, info, q) ==
    IF r = NoRetriever \/ info = NoInfo THEN Sentinel
    ELSE LET docs == RetrieverInvoke(r, [c \in {} |-> <<>>], q)
         IN  [kind |-> "found", filename |-> info.filename, count |-> Len(docs),
              excerpts |-> docs]

\* current_document_info of the old backend, lines 184-189
OldBuiltInfo(d) ==
    [filename |-> d, chunks |-> NumChunks(d), thread_id |-> "", gen |-> 1]

\* process_document(pdf_path), called from the sidebar while the session is on thread t
old_process_document(t, d, ok) ==
    /\ old_ops < MaxOldOps
    /\ IF ok
       THEN /\ old_retriever' = BuiltRetriever("faiss", "", d, 1)
            /\ old_info' = OldBuiltInfo(d)
            /\ old_owner' = t
       ELSE UNCHANGED <<old_retriever, old_info, old_owner>>
    /\ old_last' = [op |-> "process_document", by |-> t, success |-> ok]
    /\ old_ops' = old_ops + 1
    /\ UNCHANGED old_result

\* remove_document(), lines 205-214, called from the sidebar on thread t
RemovedRetriever(r) == NoRetriever

remove_document(t) ==
    /\ old_ops < MaxOldOps
    /\ old_retriever' = RemovedRetriever(old_retriever)
    /\ old_info' = NoInfo
    /\ old_owner' = ""
    /\ old_last' = [op |-> "remove_document", by |-> t, success |-> TRUE]
    /\ old_ops' = old_ops + 1
    /\ UNCHANGED old_result

\* rag_tool called by the graph run of thread t
old_rag_tool(t, q) ==
    /\ old_ops < MaxOldOps
    /\ old_result' = [old_result EXCEPT ![t] = OldRagTool(old_retriever, old_info, q)]
    /\ old_last' = [op |-> "rag_tool", by |-> t, success |-> TRUE]
    /\ old_ops' = old_ops + 1
    /\ UNCHANGED <<old_retriever, old_info, old_owner>>

OldInit ==
    /\ old_retriever = NoRetriever
    /\ old_info = NoInfo
    /\ old_owner = ""
    /\ old_result = [t \in ThreadIds |-> IdleQuery.out]
    /\ old_last = [op |-> "none", by |-> "", success |-> TRUE]
    /\ old_ops = 0

(***************************************************************************)
(* VoiceAssistantAgent of agents/plan_executor.py: one session object, its *)
(* primary backend Gemini and its fallback Groq.                           *)
(***************************************************************************)
\* __init__, lines 34-49 and 66: the session after construction.  With the
\* primary failing to initialize the constructor returns only when the
\* fallback is enabled and GroqClient() succeeds; otherwise it raises and
\* there is no session.
NewSession(geminiOk, fallback) ==
    IF geminiOk
    THEN [use_groq_fallback |-> fallback, llm_name |-> "Gemini", primary_llm |-> "Gemini",
          gemini_client |-> TRUE, groq_client |-> FALSE, tools |-> FALSE,
          memory |-> <<>>]
    ELSE [use_groq_fallback |-> fallback, llm_name |-> "Groq", primary_llm |-> "Groq",
          gemini_client |-> FALSE, groq_client |-> TRUE, tools |-> FALSE,
          memory |-> <<>>]

NoReply == [llm_used |-> "", success |-> TRUE, depth |-> 0]

SessionStart(geminiOk, fallback) ==
    /\ ~(~geminiOk /\ ~fallback)
    /\ session = NewSession(geminiOk, fallback)
    /\ attempts = <<>>
    /\ reply = NoReply
    /\ initFailed = ~geminiOk
    /\ switchedAt = 0
    /\ nQueries = 0

ClientOf_primary_first(name) == "Gemini"

\* _generate_simple_response, lines 189-200: the client the call goes to
ClientOf(name) == IF name = "Gemini" THEN "Gemini" ELSE "Groq"

\* the backend calls of one pass through lines 113-124, for query number q:
\* with tools registered the agent executor runs on primary_llm and, when
\* it raises (execOk false), _generate_simple_response runs after it
GenerateAttempts(s, q, execOk) ==
    LET simple == [backend |-> ClientOf(s.llm_name), via |-> "client", query |-> q]
        executor == [backend |-> s.primary_llm, via |-> "executor", query |-> q]
    IN  IF ~s.tools THEN <<simple>>
        ELSE IF execOk THEN <<executor>>
        ELSE <<executor, simple>>

SwitchToGroq_llm_only(s) == [s EXCEPT !.groq_client = TRUE, !.primary_llm = "Groq"]

\* lines 143-145
SwitchToGroq(s) ==
    [s EXCEPT !.groq_client = TRUE, !.primary_llm = "Groq", !.llm_name = "Groq"]

\* the except branch of lines 138-148 as the call on session s takes it
Retries(s) == s.use_groq_fallback /\ s.llm_name = "Gemini"

\* the user and the assistant message of query number q
MemoryPair(q) == <<[role |-> "user", query |-> q], [role |-> "assistant", query |-> q]>>

SaveToMemory_always(mem, q, ok) == mem \o MemoryPair(q)

\* lines 126-129 (save_to_memory left at its default): the session history
\* after a pass through the try body that completed (ok) or raised.
\* add_message (conversation_memory.py 89-124) appends and never raises, and
\* no statement that can raise comes after it
SaveToMemory(mem, q, ok) == IF ok THEN mem \o MemoryPair(q) ELSE mem

\* register_tool / register_tools
register_tool ==
    /\ ~session.tools
    /\ session' = [session EXCEPT !.tools = TRUE]
    /\ UNCHANGED <<attempts, reply, initFailed, switchedAt, nQueries>>

\* process_query, with the call it makes to itself at line 148.
\* ok1: the try body of lines 103-136 completes; execOk1: the agent executor
\* returns; groqInit: GroqClient() of line 143 returns; ok2, execOk2: the same
\* as ok1, execOk1 for the call of line 148.  reply.depth is the number of
\* process_query frames on the stack when the reply is built; a nested call
\* that would take the retry branch again is recorded as depth 3.
process_query(ok1, execOk1, groqInit, ok2, execOk2) ==
    /\ nQueries < MaxQueries
    /\ nQueries' = nQueries + 1
    /\ execOk1 => session.tools /\ ok1
    /\ LET q == nQueries + 1
           a1 == GenerateAttempts(session, q, execOk1)
           fallback == Retries(session)
       IN  IF ok1
           THEN /\ ~groqInit /\ ~ok2 /\ ~execOk2
                /\ attempts' = attempts \o a1
                /\ reply' = [llm_used |-> session.llm_name, success |-> TRUE, depth |-> 1]
                /\ session' = [session EXCEPT !.memory = SaveToMemory(@, q, TRUE)]
                /\ UNCHANGED switchedAt
           ELSE IF ~fallback
           THEN /\ ~groqInit /\ ~ok2 /\ ~execOk2
                /\ attempts' = attempts \o a1
                /\ reply' = [llm_used |-> session.llm_name, success |-> FALSE, depth |-> 1]
                /\ session' = [session EXCEPT !.memory = SaveToMemory(@, q, FALSE)]
                /\ UNCHANGED switchedAt
           ELSE IF ~groqInit
           THEN /\ ~ok2 /\ ~execOk2
                /\ attempts' = attempts \o a1
                /\ reply' = [llm_used |-> "none", success |-> FALSE, depth |-> 1]
                /\ session' = [session EXCEPT !.memory = SaveToMemory(@, q, FALSE)]
                /\ UNCHANGED switchedAt
           ELSE LET s2 == SwitchToGroq(session)
                IN  /\ execOk2 => s2.tools /\ ok2
                    /\ session' = [s2 EXCEPT !.memory = SaveToMemory(@, q, ok2)]
                    /\ switchedAt' = q
                    /\ attempts' = attempts \o a1 \o GenerateAttempts(s2, q, execOk2)
                    /\ reply' = [llm_used |-> s2.llm_name, success |-> ok2,
                                 depth |-> IF ~ok2 /\ Retries(s2) THEN 3 ELSE 2]
    /\ UNCHANGED initFailed

\* the session the other specifications leave at rest
SessionInit == SessionStart(TRUE, TRUE)

(***************************************************************************)
(* The chat requests of one process, run as coroutines of one event loop:  *)
(* a step is the code between two awaits that wait for input or output.    *)
(* init_persistence, build_graph after its discovery and the tool checks   *)
(* of agent and safe_tool_node hold no such await; the discovery of        *)
(* initialize (mcp.py line 38) and the model call are the ones that do.    *)
(* Every request carries a text that opens the keyword gate of agent.      *)
(* boot.chatbot is _chatbot (0: None, r: the graph that the build_graph    *)
(* call of request r compiled), boot.tools says whether the tool cache of  *)
(* _mcp_client holds the MCP tools or is empty, boot.builds counts the     *)
(* build_graph calls.                                                      *)
(***************************************************************************)
Requests == 1..MaxRequests

\* a request at the start of chat: graph is the object get_chatbot returned
\* to it, bound says whether the MCP tools were bound to its model, call is
\* the tool its assistant message asks for, active says whether the MCP
\* tools are in the tool set of its Acting step
NewRequest == [pc |-> "chat", graph |-> 0, bound |-> FALSE, call |-> "", active |-> FALSE]

BootInit ==
    boot = [chatbot |-> 0, builds |-> 0, tools |-> FALSE,
            req |-> [r \in Requests |-> NewRequest]]

\* get_chatbot, lines 537-542, up to the await of the discovery that
\* build_graph starts at line 495, or to its return
get_chatbot(r) ==
    /\ boot.req[r].pc = "chat"
    /\ boot' = IF boot.chatbot = 0
               THEN [boot EXCEPT !.builds = @ + 1, !.req[r].pc = "build"]
               ELSE [boot EXCEPT !.req[r].graph = boot.chatbot, !.req[r].pc = "agent"]

\* initialize of mcp.py, lines 36-42, from the return of the discovery: the
\* cache is set to the tools found (ok) or emptied (the discovery raised),
\* and the caller goes on.  build_graph compiles the graph and get_chatbot
\* stores and returns it (line 541); agent binds what the cache now holds
\* (line 265); safe_tool_node builds its tool set from it (line 409).
mcp_initialize(r, ok) ==
    /\ boot.req[r].pc \in {"build", "bind", "load"}
    /\ boot' = CASE boot.req[r].pc = "build" ->
                      [boot EXCEPT !.tools = ok, !.chatbot = r,
                                   !.req[r].graph = r, !.req[r].pc = "agent"]
                 [] boot.req[r].pc = "bind" ->
                      [boot EXCEPT !.tools = ok, !.req[r].bound = ok,
                                   !.req[r].pc = "model"]
                 [] OTHER ->
                      [boot EXCEPT !.tools = ok, !.req[r].active = ok,
                                   !.req[r].pc = "done"]

\* agent, lines 262-271 with load_mcp true
agent_bind_tools(r) ==
    /\ boot.req[r].pc = "agent"
    /\ boot' = IF boot.tools
               THEN [boot EXCEPT !.req[r].bound = TRUE, !.req[r].pc = "model"]
               ELSE [boot EXCEPT !.req[r].pc = "bind"]

\* agent, lines 303 and 324-377: the model asks for one of the tools bound
\* to it, or its call is rejected and lines 361-377 build the add_expense
\* call.  The rejection line 333 looks for is about a numeric argument, which
\* only tools of the MCP servers have: it is taken to come only with them
\* bound.
agent_respond(r, name, manual) ==
    /\ boot.req[r].pc = "model"
    /\ IF manual THEN boot.req[r].bound /\ name = ManualCall.name
                 ELSE name \in ActiveTools(boot.req[r].bound)
    /\ boot' = [boot EXCEPT !.req[r].call = name, !.req[r].pc = "tools"]

\* safe_tool_node, lines 405-412
tool_node_tools(r) ==
    /\ boot.req[r].pc = "tools"
    /\ boot' = IF boot.tools
               THEN [boot EXCEPT !.req[r].active = TRUE, !.req[r].pc = "done"]
               ELSE [boot EXCEPT !.req[r].pc = "load"]

BootNext ==
    \/ \E r \in Requests : get_chatbot(r)
                             /\ UNCHANGED <<turnVars, ragVars, oldVars, sessVars, bridgeVars>>
    \/ \E r \in Requests, ok \in BOOLEAN :
           mcp_initialize(r, ok)
               /\ UNCHANGED <<turnVars, ragVars, oldVars, sessVars, bridgeVars>>
    \/ \E r \in Requests : agent_bind_tools(r)
                             /\ UNCHANGED <<turnVars, ragVars, oldVars, sessVars, bridgeVars>>
    \/ \E r \in Requests, name \in {"search_tool", "add_expense"}, manual \in BOOLEAN :
           agent_respond(r, name, manual)
               /\ UNCHANGED <<turnVars, ragVars, oldVars, sessVars, bridgeVars>>
    \/ \E r \in Requests : tool_node_tools(r)
                             /\ UNCHANGED <<turnVars, ragVars, oldVars, sessVars, bridgeVars>>

Init == (\E text \in UserTexts : TurnStart(text)) /\ RagInit /\ OldInit /\ BootInit /\ SessionInit

\* The run is followed on the paths with at most MaxIrregular irregular
\* round trips.
Next ==
    \/ \E outcome \in AgentOutcomes, n \in 0..MaxCalls, err \in ErrorTexts :
           /\ agent(outcome, n, err)
           /\ Irregular(messages') <= MaxIrregular
           /\ UNCHANGED <<ragVars, oldVars, sessVars, bridgeVars, boot>>
    \/ \E k \in 0..MaxCalls, e \in 0..MaxCalls, mcpUp \in BOOLEAN :
           /\ safe_tool_node(k, e, [kind |-> "str", text |-> ""], mcpUp)
           /\ Irregular(messages') <= MaxIrregular
           /\ UNCHANGED <<ragVars, oldVars, sessVars, bridgeVars, boot>>
    \/ recursion_error /\ UNCHANGED <<ragVars, oldVars, sessVars, bridgeVars, boot>>

Spec == Init /\ [][Next]_vars

\* The event loop runs a started graph run on: every model call and tool call
\* returns or times out.  The run is that of the expense text, for which every
\* branch of agent can be taken.
FairInit == TurnStart("add expense 50 for lunch") /\ RagInit /\ OldInit /\ BootInit /\ SessionInit

FairSpec == FairInit /\ [][Next]_vars /\ WF_vars(Next)

RagNext ==
    \/ \E t \in ThreadIds, d \in Docs, outcome \in BuildOutcomes :
           upload_file(t, d, outcome) /\ UNCHANGED <<turnVars, oldVars, sessVars, bridgeVars, boot>>
    \/ \E t \in ThreadIds, d \in Docs, outcome \in BuildOutcomes :
           chat_reprocess(t, d, outcome) /\ UNCHANGED <<turnVars, oldVars, sessVars, bridgeVars, boot>>
    \/ process_document_set_retriever /\ UNCHANGED <<turnVars, oldVars, sessVars, bridgeVars, boot>>
    \/ process_document_set_info /\ UNCHANGED <<turnVars, oldVars, sessVars, bridgeVars, boot>>
    \/ \E cfg \in ConfigThreadIds, q \in Queries :
           rag_tool_resolve(cfg, q) /\ UNCHANGED <<turnVars, oldVars, sessVars, bridgeVars, boot>>
    \/ rag_tool_get_retriever /\ UNCHANGED <<turnVars, oldVars, sessVars, bridgeVars, boot>>
    \/ rag_tool_get_info /\ UNCHANGED <<turnVars, oldVars, sessVars, bridgeVars, boot>>
    \/ \E invoked \in BOOLEAN : rag_tool_return(invoked) /\ UNCHANGED <<turnVars, oldVars, sessVars, bridgeVars, boot>>

\* the registries are checked with the graph run at rest
RegistryInit == TurnStart("what is the date") /\ RagInit /\ OldInit /\ BootInit /\ SessionInit

RagSpec == RegistryInit /\ [][RagNext]_vars

\* the requests of the process, with the registries and the graph run at rest
BootSpec == RegistryInit /\ [][BootNext]_vars

OldRagNext ==
    \/ \E t \in ThreadIds, d \in Docs, ok \in BOOLEAN :
           old_process_document(t, d, ok) /\ UNCHANGED <<turnVars, ragVars, sessVars, bridgeVars, boot>>
    \/ \E t \in ThreadIds : remove_document(t) /\ UNCHANGED <<turnVars, ragVars, sessVars, bridgeVars, boot>>
    \/ \E t \in ThreadIds, q \in Queries :
           old_rag_tool(t, q) /\ UNCHANGED <<turnVars, ragVars, sessVars, bridgeVars, boot>>

OldRagSpec == RegistryInit /\ [][OldRagNext]_vars

(***************************************************************************)
(* One Acting step on the tool calls a model can write.                    *)
(***************************************************************************)
\* tool calls as a model writes them: name and arguments
CallInputs ==
    { [name |-> "search_tool", args |-> SearchArgs],
      [name |-> "add_expense",
       args |-> [p \in {"amount", "date"} |->
                   IF p = "amount" THEN Str(<<"5", "0">>) ELSE Str(<<"T", "o", "d", "a", "y">>)]],
      [name |-> "add_expense",
       args |-> [p \in {"amount", "date"} |->
                   IF p = "amount" THEN Num(50)
                   ELSE Str(<<"2", "0", "2", "4", "-", "0", "1", "-", "1", "5">>)]],
      [name |-> "add_expense", args |-> [p \in {"amount"} |-> Str(<<"5", "x">>)]],
      [name |-> "list_expenses",
       args |-> [p \in {"start_date", "end_date"} |->
                   IF p = "start_date" THEN Str(<<"T", "O", "D", "A", "Y">>)
                   ELSE Str(<<"1", "/", "5", "/", "2", "0", "2", "4">>)]],
      [name |-> "list_expenses",
       args |-> [p \in {"start_date", "end_date"} |->
                   IF p = "start_date" THEN Str(<<"1", "3", "/", "4", "5", "/", "2", "0", "2", "4">>)
                   ELSE Str(<<"1", "5", "-", "0", "1", "-", "2", "0", "2", "4">>)]],
      [name |-> "summarize", args |-> [p \in {"date"} |-> Str(TodayWord)]],
      [name |-> "add",
       args |-> [p \in {"a", "b"} |-> IF p = "a" THEN Str(<<"2">>) ELSE Num(3)]],
      [name |-> "get_weather", args |-> [p \in {"city"} |-> Str(<<"d", "a", "t", "a">>)]] }

\* the assistant message of message number k whose tool calls are cs
WithIds(k, cs) ==
    [i \in 1..Len(cs) |->
        [id |-> "call_" \o ToString(k) \o "_" \o ToString(i), name |-> cs[i].name,
         args |-> cs[i].args]]

\* a graph run after its first Reasoning step answered with the tool calls cs
ActStart(cs) ==
    /\ pc = "Acting"
    /\ messages = <<HumanMessage("add expense 50 for lunch"),
                    AIMessage("text", WithIds(2, cs))>>
    /\ step = 1
    /\ raisedAt = 0
    /\ errFrames = 0
    /\ model = ChatRequestDefaultModel
    /\ sent = ModelInput(<<HumanMessage("add expense 50 for lunch")>>)
    /\ llmCalls = LlmCalls("response", NoError, ResolveModel(ChatRequestDefaultModel), TRUE)
    /\ frames = <<>>
    /\ bridge = OpenStream
    /\ dispatched = <<>>

ActInit ==
    /\ \E n \in 1..MaxCalls : \E cs \in [1..n -> CallInputs] : ActStart(cs)
    /\ RagInit /\ OldInit /\ BootInit /\ SessionInit

ActNext ==
    \E k \in 0..MaxCalls, e \in 0..MaxCalls, raw \in RawResults, mcpUp \in BOOLEAN :
        /\ safe_tool_node(k, e, raw, mcpUp)
        /\ Irregular(messages') <= MaxIrregular
        /\ UNCHANGED <<ragVars, oldVars, sessVars, bridgeVars, boot>>

ActSpec == ActInit /\ [][ActNext]_vars

(***************************************************************************)
(* The graph run for every model name of a request.                        *)
(***************************************************************************)
ResolveInit ==
    /\ \E m \in RequestModels : TurnStartWith("what is the date", m)
    /\ RagInit /\ OldInit /\ BootInit /\ SessionInit

ResolveSpec == ResolveInit /\ [][Next]_vars

(***************************************************************************)
(* One session of the voice assistant agent.                               *)
(***************************************************************************)
SessionSpecInit ==
    /\ TurnStart("what is the date") /\ RagInit /\ OldInit /\ BootInit
    /\ \E geminiOk \in BOOLEAN, fallback \in BOOLEAN : SessionStart(geminiOk, fallback)

SessionNext ==
    \/ register_tool /\ UNCHANGED <<turnVars, ragVars, oldVars, bridgeVars, boot>>
    \/ \E ok1 \in BOOLEAN, execOk1 \in BOOLEAN, groqInit \in BOOLEAN,
          ok2 \in BOOLEAN, execOk2 \in BOOLEAN :
           process_query(ok1, execOk1, groqInit, ok2, execOk2)
               /\ UNCHANGED <<turnVars, ragVars, oldVars, bridgeVars, boot>>

SessionSpec == SessionSpecInit /\ [][SessionNext]_vars

(***************************************************************************)
(* The graph run under stream_generator, on the message lists of a request.*)
(***************************************************************************)
\* lines 130-141: the messages of a request, user and assistant turns
Histories ==
    { <<HumanMessage("add expense 50 for lunch")>>,
      <<HumanMessage("what is the date"), AIMessage("old answer", <<>>),
        HumanMessage("add expense 50 for lunch")>>,
      <<HumanMessage("add expense 50 for lunch"), AIMessage("old answer", <<>>),
        HumanMessage("what is the date")>> }

BridgeInit ==
    /\ \E h \in Histories : TurnStartFrom(h, ChatRequestDefaultModel)
    /\ RagInit /\ OldInit /\ BootInit /\ SessionInit

\* The response is followed on the runs with at most one irregular round
\* trip, and with tools that return a text.
BridgeNext ==
    \/ \E outcome \in AgentOutcomes, n \in 0..MaxCalls, err \in ErrorTexts :
           /\ stream_agent(outcome, n, err)
           /\ Irregular(messages') <= 1
           /\ UNCHANGED <<ragVars, oldVars, sessVars, boot>>
    \/ \E k \in 0..MaxCalls, mcpUp \in BOOLEAN, overlap \in BOOLEAN :
           /\ stream_tools(k, 0, [kind |-> "str", text |-> ""], mcpUp, overlap)
           /\ Irregular(messages') <= 1
           /\ UNCHANGED <<ragVars, oldVars, sessVars, boot>>
    \/ stream_error /\ UNCHANGED <<ragVars, oldVars, sessVars, boot>>
    \/ \E emergency \in EmergencyOutcomes \cup {"none"} :
           stream_end(emergency) /\ UNCHANGED <<ragVars, oldVars, sessVars, boot>>
    \/ client_disconnect /\ UNCHANGED <<ragVars, oldVars, sessVars, boot>>

BridgeSpec == BridgeInit /\ [][BridgeNext]_vars

(***************************************************************************)
(* The run of the expense text with a model whose calls are rejected by    *)
(* the backend's validation of tool calls: every Reasoning step answers    *)
(* with at most one tool call, every tool returns a text.                  *)
(***************************************************************************)
ManualNext ==
    \/ \E outcome \in AgentOutcomes, n \in 0..1, err \in ErrorTexts :
           agent(outcome, n, err) /\ UNCHANGED <<ragVars, oldVars, sessVars, bridgeVars, boot>>
    \/ safe_tool_node(0, 0, [kind |-> "str", text |-> ""], TRUE)
           /\ UNCHANGED <<ragVars, oldVars, sessVars, bridgeVars, boot>>
    \/ recursion_error /\ UNCHANGED <<ragVars, oldVars, sessVars, bridgeVars, boot>>

ManualSpec == FairInit /\ [][ManualNext]_vars

(***************************************************************************)
(* Claims about the turn state machine.                                    *)
(***************************************************************************)
Terminal == {"Done", "Failed"}

Last(msgs) == msgs[Len(msgs)]

\* C1: every assistant message with tool calls c1..cn is followed by exactly
\* one tool message per call id, in the order c1..cn, before the next
\* Reasoning step runs, on every path through safe_tool_node, the path where
\* execution raises included.  (The calls of the last message are still
\* pending while the run is at Acting, or was stopped there.)
C1_OneToolMessagePerCall ==
    \A i \in 1..Len(messages) :
        HasToolCalls(messages[i]) =>
            \/ i = Len(messages) /\ pc \in {"Acting", "Failed"}
            \/ LET calls == messages[i].tool_calls
                   n == Len(calls)
               IN  /\ Len(messages) >= i + n
                   /\ \A j \in 1..n :
                        /\ messages[i + j].type = "tool"
                        /\ messages[i + j].tool_call_id = calls[j].id
                   /\ Len(messages) > i + n => messages[i + n + 1].type # "tool"

\* C2: the run starts in Reasoning; Reasoning goes to Acting exactly when the
\* model response carries a tool call and to Done exactly when it carries
\* none; Acting goes back to Reasoning once the tool messages are appended;
\* Acting is never entered without a pending tool call; Done is never left.
\* (The exits into Failed, at the superstep limit from whichever node is next
\* and on an exception that leaves the agent node, are what C3, C4 and C16
\* are about.)
C2_Transitions ==
    /\ pc = "Reasoning"
    /\ [][/\ <<pc, pc'>> \in {<<"Reasoning", "Reasoning">>, <<"Reasoning", "Acting">>,
                             <<"Reasoning", "Done">>, <<"Acting", "Acting">>,
                             <<"Acting", "Reasoning">>, <<"Done", "Done">>,
                             <<"Reasoning", "Failed">>, <<"Acting", "Failed">>,
                             <<"Failed", "Failed">>}
          /\ (pc = "Reasoning" /\ pc' \notin {"Reasoning", "Failed"}) =>
                /\ Len(messages') = Len(messages) + 1
                /\ pc' = "Acting" <=> HasToolCalls(Last(messages'))
                /\ pc' = "Done" <=> ~HasToolCalls(Last(messages'))
          /\ pc' = "Acting" => HasToolCalls(Last(messages'))
          /\ (pc = "Acting" /\ pc' = "Reasoning") =>
                /\ Len(messages') > Len(messages)
                /\ \A i \in Len(messages) + 1 .. Len(messages') : messages'[i].type = "tool"
          /\ pc = "Done" => UNCHANGED turnVars]_vars

C2_Witness ==
    /\ pc = "Done"
    /\ \E i \in 1..Len(messages) : HasToolCalls(messages[i])
    /\ \E i \in 1..Len(messages) : messages[i].type = "tool"

\* C3: every turn terminates: whatever the model answers, a run executes at
\* most RecursionLimit (15) Reasoning/Acting steps, each step that does not
\* end the run uses one of them up, the message list stays bounded, and the
\* run reaches Done or Failed.
C3_TurnTerminates ==
    /\ [](/\ step <= RecursionLimit
          /\ Len(messages) <= 1 + MaxCalls * step
          /\ errFrames <= 1)
    /\ [][pc \notin Terminal => (step' = step + 1 \/ pc' = "Failed")]_vars
    /\ <>(pc \in Terminal)

C3_Witness ==
    /\ pc = "Failed"
    /\ step = RecursionLimit
    /\ \A i \in 1..Len(messages) : messages[i].type = "ai" => HasToolCalls(messages[i])

\* C4: when the iteration limit is exceeded the turn enters Failed and exactly
\* one assistant-role explanatory message is appended to the message sequence,
\* every earlier message staying in place unchanged.
C4_FailedAppendsOneMessage ==
    [][(pc # "Failed" /\ pc' = "Failed") =>
          /\ Len(messages') = Len(messages) + 1
          /\ SubSeq(messages', 1, Len(messages)) = messages
          /\ Last(messages').type = "ai"
          /\ Last(messages').tool_calls = <<>>]_vars

\* C10: an exception raised while a tool call executes becomes, inside the
\* Acting step, one tool message with a failure text and the id of the call
\* that failed, and never leaves safe_tool_node.
C10_FailureTaggedWithFailedCall ==
    raisedAt # 0 =>
        /\ Len(messages) >= 2
        /\ Last(messages).type = "tool"
        /\ Last(messages).content = "Tool execution failed"
        /\ HasToolCalls(messages[Len(messages) - 1])
        /\ raisedAt <= Len(messages[Len(messages) - 1].tool_calls)
        /\ Last(messages).tool_call_id =
               messages[Len(messages) - 1].tool_calls[raisedAt].id

(***************************************************************************)
(* Claims about the retriever registry.                                    *)
(***************************************************************************)
\* the documents indexed under a thread id so far
DocsUnder(t) ==
    LET h == DictGet(ingestedUnder, t, <<>>) IN {h[i] : i \in 1..Len(h)}

\* C5: a query executed for thread A never returns content that was ingested
\* only under another thread: every excerpt, and the file name of the answer,
\* is of a document ingested under A.
C5_ThreadIsolation ==
    query.pc = "done" =>
        /\ \A i \in 1..Len(query.out.excerpts) :
              query.out.excerpts[i].doc \in DocsUnder(query.caller)
        /\ query.out.filename # "" =>
              \E d \in DocsUnder(query.caller) : query.out.filename = FileName(query.caller, d)

C5_Witness ==
    /\ query.pc = "done"
    /\ query.caller = "thread_a"
    /\ query.out.kind = "found"
    /\ \E d \in DocsUnder("default_thread") : d \notin DocsUnder("thread_a")

\* C6: a query that runs while the thread's document is ingested again sees
\* the old retriever with the old document info, or the new retriever with
\* the new one, never one of each.
C6_AtomicReplace ==
    (/\ query.pc \in {"read_info", "done"}
     /\ query.retriever # NoRetriever
     /\ query.info # NoInfo) => query.retriever.gen = query.info.gen

\* C7: ingesting the same document under the same thread id once more leaves
\* every query answering as after a single ingest: the excerpts are those of
\* one copy of the document, none of them twice.
C7_IdempotentReingest ==
    \A d \in Docs :
        (/\ query.pc = "done"
         /\ query.out.kind = "found"
         /\ ingest.pc = "idle"
         /\ DocsUnder(query.thread) = {d}
         /\ query.retriever = DictGet(retrievers, query.thread, NoRetriever)
         /\ query.info = DictGet(docInfo, query.thread, NoInfo))
        => /\ query.out.excerpts = SimilaritySearch(Chunks(d), query.text, {}, TopK)
           /\ query.out.count = Len(query.out.excerpts)

\* C8: a query for a thread id under which nothing was ever ingested returns
\* the no-document sentinel as an ordinary result, and no step of the query
\* changes the registry maps.
C8_NoIndexSentinel ==
    [][(query'.pc # query.pc /\ DocsUnder(query'.thread) = {}) =>
          /\ UNCHANGED <<retrievers, docInfo, pgStore>>
          /\ query'.pc = "done" => query'.out = Sentinel]_vars

C8_Witness ==
    /\ query.pc = "done"
    /\ DocsUnder(query.thread) = {}
    /\ query.out = Sentinel
    /\ DOMAIN retrievers # {}

(***************************************************************************)
(* Claim about remove.                                                     *)
(***************************************************************************)
\* C9: remove, called for a thread, discards that thread's index only: the
\* thread's queries return the sentinel afterwards, and a document loaded for
\* another thread stays loaded.
C9_RemoveOnlyOwnThread ==
    [][(old_ops' = old_ops + 1 /\ old_last'.op = "remove_document") =>
          /\ \A q \in Queries : OldRagTool(old_retriever', old_info', q) = Sentinel
          /\ (old_owner # "" /\ old_owner # old_last'.by) =>
                UNCHANGED <<old_retriever, old_info>>]_vars

(***************************************************************************)
(* Claims about the Acting step: tool names and argument coercion.         *)
(***************************************************************************)
\* C11: a tool call whose name is not in the active tool set gets a failure
\* tool message with its own call id, and every other call of the same
\* assistant message is still run and gets its own result message.
C11_UnknownToolDoesNotAbort ==
    [][(pc = "Acting" /\ pc' = "Reasoning") =>
          LET calls == Last(messages).tool_calls
              new == SubSeq(messages', Len(messages) + 1, Len(messages'))
              ran == {dispatched'[i].id : i \in 1..Len(dispatched')}
          IN  (\E j \in 1..Len(calls) : calls[j].id \notin ran) =>
                 /\ Len(new) = Len(calls)
                 /\ \A j \in 1..Len(calls) :
                       /\ new[j].type = "tool"
                       /\ new[j].tool_call_id = calls[j].id
                       /\ IF calls[j].id \in ran
                          THEN new[j].content \in {"result", "Tool executed successfully"}
                          ELSE new[j].content = InvalidToolText]_vars

\* the parameters the tool schemas declare as numbers
NumericParams(name) ==
    IF name = "add_expense" THEN {"amount"}
    ELSE IF name \in {"add", "subtract", "multiply", "divide", "modulus", "power"}
    THEN {"a", "b"}
    ELSE {}

\* C14: for every tool of the active set and every parameter its schema
\* declares numeric, an argument given as a numeric string reaches the tool
\* as the parsed number ("50" as 50).
C14_NumericCoercion ==
    \A i \in 1..Len(dispatched) : \A p \in DOMAIN dispatched[i].given :
        LET v == dispatched[i].given[p]
        IN  (/\ p \in NumericParams(dispatched[i].name)
             /\ v.kind = "str" /\ Len(v.str) > 0 /\ AllDigits(v.str))
            => dispatched[i].args[p] = Num(ParseInt(v.str))

\* the parameters that hold a date
DateParams(name) ==
    IF name = "add_expense" THEN {"date"}
    ELSE IF name \in {"list_expenses", "summarize", "net_cashflow"}
    THEN {"start_date", "end_date", "date"}
    ELSE {}

\* a text of the form YYYY-MM-DD that is a date
IsISODate(s) ==
    /\ Len(s) = 10 /\ s[5] = "-" /\ s[8] = "-"
    /\ AllDigits(SubSeq(s, 1, 4)) /\ AllDigits(SubSeq(s, 6, 7)) /\ AllDigits(SubSeq(s, 9, 10))
    /\ ValidDate(ParseInt(SubSeq(s, 1, 4)), ParseInt(SubSeq(s, 6, 7)),
                 ParseInt(SubSeq(s, 9, 10)))

\* the date texts that name a date: the word today in any letter case, a
\* month/day/year date, a date already in ISO form
NamesADate(s) == Lower(s) = TodayWord \/ StrptimeParses(s) \/ IsISODate(s)

\* C15: for every tool that takes a date parameter, add_expense included, a
\* date argument reaches the tool in the form YYYY-MM-DD, and the word today,
\* in any letter case, reaches it as the current date.
C15_DateCoercion ==
    \A i \in 1..Len(dispatched) : \A p \in DOMAIN dispatched[i].given :
        LET v == dispatched[i].given[p]
            a == dispatched[i].args[p]
        IN  (/\ p \in DateParams(dispatched[i].name)
             /\ v.kind = "str" /\ NamesADate(v.str))
            => /\ a.kind = "str"
               /\ IsISODate(a.str)
               /\ Lower(v.str) = TodayWord => a.str = Today

(***************************************************************************)
(* Claims about the Reasoning step.                                        *)
(***************************************************************************)
\* C12: the list passed to the model is the system prompt followed by the 10
\* most recent validated messages, in their order, when there are more than
\* 10 of them, and by all of them otherwise; the system prompt is first.
C12_Truncation ==
    [][(pc = "Reasoning" /\ pc' \in {"Acting", "Done"}) =>
          LET v == Validate(messages)
              n == IF Len(v) > 10 THEN 10 ELSE Len(v)
          IN  /\ Len(sent') = n + 1
              /\ sent'[1] = SystemMessage("system_prompt")
              /\ \A i \in 1..n : sent'[i + 1] = v[Len(v) - n + i]]_vars

C12_Witness ==
    /\ Len(sent) = 11
    /\ Len(messages) > 12
    /\ Last(messages).type = "ai"
    /\ sent[11] = messages[Len(messages) - 1]

\* C13: no tool message with empty content is in the list passed to the
\* model, and no tool message with empty content is appended by the Acting
\* step: an empty tool result enters the thread as the placeholder text.
C13_NoEmptyToolMessage ==
    /\ [](\A i \in 1..Len(sent) : sent[i].type = "tool" => sent[i].content # "")
    /\ [][(pc = "Acting" /\ pc' = "Reasoning") =>
             \A i \in Len(messages) + 1 .. Len(messages') :
                 messages'[i].type = "tool" /\ messages'[i].content # ""]_vars

C13_Witness ==
    \E i \in 1..Len(sent) :
        sent[i].type = "tool" /\ sent[i].content = "Tool executed successfully"

\* C16: a failure of the model backend in the Reasoning step never leaves
\* the step as an exception: when the backend cannot be set up, or the model
\* call fails and so does the retry if one is made, agent appends exactly one
\* assistant message with the error text and no tool calls and the run goes
\* to Done (or, for an expense text, the add_expense call it writes itself).
C16_ModelFailureBecomesMessage ==
    [][(/\ pc = "Reasoning" /\ step' = step + 1
        /\ (llmCalls' = <<>> \/ ~llmCalls'[Len(llmCalls')].ok)) =>
          /\ pc' # "Failed"
          /\ Len(messages') = Len(messages) + 1
          /\ SubSeq(messages', 1, Len(messages)) = messages
          /\ Last(messages').type = "ai"
          /\ \/ /\ Last(messages').tool_calls = <<>>
                /\ Last(messages').content = "I encountered an error"
                /\ pc' = "Done"
             \/ Last(messages').tool_calls = <<ManualCall>>]_vars

\* C17: when the model call with tools bound fails with a rejected-request
\* error (the class line 382 tests for), agent makes exactly one further call,
\* to the same backend, with no tools bound; for any other failure it makes
\* no further call; one Reasoning step calls the model at most twice.
C17_DegradedRetry ==
    [][(pc = "Reasoning" /\ step' = step + 1 /\ llmCalls' # <<>>) =>
          LET c == llmCalls'
          IN  /\ c[1].tools
              /\ Len(c) <= 2
              /\ c[1].rejected =>
                    /\ Len(c) = 2
                    /\ ~c[2].tools
                    /\ c[2].model = c[1].model
              /\ ~c[1].rejected => Len(c) = 1]_vars

\* C20: every model name of a request resolves to a backend id: a name of
\* the table to its entry, every other name (the default name of the chat
\* request and a missing name included) to llama-3.3-70b-versatile.
C20_ModelResolutionTotal ==
    \A i \in 1..Len(llmCalls) :
        /\ llmCalls[i].model \in {"llama-3.3-70b-versatile", "llama-3.1-70b-versatile"}
        /\ model = "llama-3.3-70b-versatile" =>
              llmCalls[i].model = "llama-3.3-70b-versatile"
        /\ model = "grok-4.1-fast" => llmCalls[i].model = "llama-3.1-70b-versatile"
        /\ model \notin {"llama-3.3-70b-versatile", "grok-4.1-fast"} =>
              llmCalls[i].model = "llama-3.3-70b-versatile"

C20_Witness ==
    /\ model = "qwen/qwen3-32b"
    /\ Len(llmCalls) = 2
    /\ llmCalls[2].model = "llama-3.3-70b-versatile"

(***************************************************************************)
(* Claims about the session's backend fallback.                            *)
(***************************************************************************)
\* C18: when the primary backend failed to initialize at construction and
\* the fallback is enabled, every backend call of every later process_query
\* goes to Groq and none to Gemini.
C18_InitFailureUsesSecondary ==
    (initFailed /\ session.use_groq_fallback) =>
        /\ session.llm_name = "Groq"
        /\ \A i \in 1..Len(attempts) : attempts[i].backend = "Groq"

C18_Witness ==
    /\ initFailed
    /\ nQueries >= 2
    /\ ~reply.success
    /\ \E i \in 1..Len(attempts) : attempts[i].via = "executor"
    /\ \E i \in 1..Len(attempts) : attempts[i].via = "client"

\* C19: once a process_query has moved the session to Groq, the session's
\* backend is Groq in every later state and every backend call of every
\* later process_query goes to Groq.
C19_SwitchIsPermanent ==
    switchedAt > 0 =>
        /\ session.llm_name = "Groq"
        /\ session.primary_llm = "Groq"
        /\ \A i \in 1..Len(attempts) :
              attempts[i].query > switchedAt => attempts[i].backend = "Groq"

C19_Witness ==
    /\ switchedAt > 0
    /\ ~reply.success
    /\ \E i \in 1..Len(attempts) : attempts[i].query > switchedAt

(***************************************************************************)
(* Claims about the response stream.                                       *)
(***************************************************************************)
\* the tags of the frames stream_generator writes
DataTags == {"0", "9", "a"}

\* the characters of the text-delta frames of fs, in the order of the frames
RECURSIVE TextOf(_)
TextOf(fs) ==
    IF fs = <<>> THEN <<>>
    ELSE (IF Head(fs).tag = "0" THEN Head(fs).text ELSE <<>>) \o TextOf(Tail(fs))

\* C21: for every tool call the tool-call-start frame ("9") comes before the
\* tool-call-result frame ("a") and both carry the same id, no two start
\* frames and no two result frames carry the same id; and the characters of
\* the text-delta frames ("0") of one assistant message come in the order of
\* the text, each character once and none left out between two of them.
C21_FrameOrder ==
    /\ \A j \in 1..Len(frames) :
          frames[j].tag = "a" =>
              \E i \in 1..(j - 1) : frames[i].tag = "9" /\ frames[i].id = frames[j].id
    /\ \A i, j \in 1..Len(frames) :
          (i < j /\ frames[i].tag = frames[j].tag /\ frames[i].tag \in {"9", "a"})
              => frames[i].id # frames[j].id
    /\ LET t == TextOf(frames)
       IN  \A i \in 1..Len(t) :
              \/ t[i][2] = 1 /\ \A j \in 1..(i - 1) : t[j][1] # t[i][1]
              \/ i > 1 /\ t[i - 1] = <<t[i][1], t[i][2] - 1>>

\* a response with two tool runs side by side, both started before either
\* ended, after the text of a model answer that came in two chunks
C21_Witness ==
    /\ Len(frames) >= 6
    /\ \E i \in 1..(Len(frames) - 3) :
          /\ frames[i].tag = "9" /\ frames[i + 1].tag = "9"
          /\ frames[i + 2].tag = "a" /\ frames[i + 3].tag = "a"
          /\ frames[i + 2].id = frames[i].id
    /\ frames[1].tag = "0" /\ frames[2].tag = "0"
    /\ frames[1].text[1][1] = frames[2].text[1][1]

\* C22: when nothing was streamed while the run was going, the generator
\* ends the response with the text of the final assistant message of the
\* run cut into text-delta frames of 50 characters (the last one may be
\* shorter), whose characters in order are the whole text, followed by one
\* terminal frame.
C22_ChunkedFallback ==
    [][(bridge.pc = "loop" /\ bridge'.pc = "closed" /\ pc = "Done"
          /\ ~bridge.has_content)
       => LET new == SubSeq(frames', Len(frames) + 1, Len(frames'))
              m == Len(messages)
              n == Len(new) - 1
          IN  /\ n >= 0
              /\ new[n + 1].tag \notin DataTags
              /\ \A i \in 1..n : new[i].tag = "0" /\ Len(new[i].text) <= chunk_size
              /\ \A i \in 1..(n - 1) : Len(new[i].text) = chunk_size
              /\ TextOf(SubSeq(new, 1, n))
                     = [i \in 1..TextLen(messages[m].content) |-> <<m, i>>]]_vars

\* C23: a response that is closed after the run failed (the graph run raised,
\* or the emergency re-invocation raised) holds exactly one error frame, and
\* it is the last frame.
C23_ExactlyOneErrorFrame ==
    (bridge.pc = "closed" /\ (pc = "Failed" \/ bridge.emergency = "raise"))
        => /\ Cardinality({i \in 1..Len(frames) : frames[i] = ErrorFrame}) = 1
           /\ Last(frames) = ErrorFrame

\* C24: a closed response ends with a terminal frame: its last frame is not a
\* text-delta, tool-call-start or tool-call-result frame, and every frame
\* before it is one.
C24_TerminalFrame ==
    bridge.pc = "closed"
        => /\ frames # <<>>
           /\ Last(frames).tag \notin DataTags
           /\ \A i \in 1..(Len(frames) - 1) : frames[i].tag \in DataTags

\* C25: when the client disconnects while the tool calls of the last
\* assistant message are being executed, the run goes on: it is still at its
\* Acting step, which then appends the tool messages.
C25_DisconnectKeepsTurn ==
    [][(bridge.pc = "loop" /\ bridge'.pc = "cancelled" /\ pc = "Acting")
       => pc' = "Acting"]_vars

(***************************************************************************)
(* Claims about the stored messages, the limit, the tool results, the      *)
(* coercion and the gating.                                                *)
(***************************************************************************)
\* C26: the message sequence is append-only: the sequence before an Acting
\* step is a prefix of the sequence after it, content and tool-call
\* arguments of every earlier message included.
C26_AppendOnly ==
    [][(pc = "Acting" /\ pc' = "Reasoning")
       => /\ Len(messages') >= Len(messages)
          /\ SubSeq(messages', 1, Len(messages)) = messages]_vars

\* the Reasoning steps of the run that asked for tools
ToolRequests == Cardinality({i \in 1..Len(messages) : HasToolCalls(messages[i])})

\* C27: a run is forced to Failed by the limit only after the model asked
\* for tools on more than 15 Reasoning steps: with k <= 15 such steps the
\* run is not failed by the limit.
C27_LimitCountsCycles ==
    (pc = "Failed" /\ llmCalls # <<>> /\ ~WithinLimit(step)) => ToolRequests > 15

\* C28: every message an Acting step appends is a tool message with content
\* that is not empty, whatever the tool returned and also when the execution
\* raised; the filter of the next Reasoning step removes none of them.
C28_ToolContentIsText ==
    [][(pc = "Acting" /\ pc' = "Reasoning")
       => /\ \A i \in (Len(messages) + 1)..Len(messages') :
                 messages'[i].type = "tool" /\ messages'[i].content # ""
          /\ Validate(messages') = messages']_vars

\* an Acting step whose tool returned a dict: the content is its JSON text
C28_Witness ==
    /\ pc = "Reasoning" /\ step = 2
    /\ Last(messages).type = "tool"
    /\ Last(messages).content = "{\n  \"a\": 1\n}"

\* an argument the parameter fixes of lines 423-449 can resolve: a text of
\* digits as the amount of add_expense, the word today or a month/day/year
\* date as a date of list_expenses, summarize or net_cashflow
Resolvable(name, p, v) ==
    /\ v.kind = "str"
    /\ \/ name = "add_expense" /\ p = "amount" /\ FloatParses(v.str)
       \/ /\ name \in {"list_expenses", "summarize", "net_cashflow"}
          /\ p \in {"start_date", "end_date", "date"}
          /\ Lower(v.str) = TodayWord \/ StrptimeParses(v.str)

\* C29: an argument that no fix resolves reaches the tool exactly as the
\* model gave it, with every other argument of the call, and a call with
\* such an argument is invoked whenever a call of the same tool is.
C29_UnresolvedPassThrough ==
    /\ \A i \in 1..Len(dispatched) :
          /\ DOMAIN dispatched[i].args = DOMAIN dispatched[i].given
          /\ \A p \in DOMAIN dispatched[i].given :
                ~Resolvable(dispatched[i].name, p, dispatched[i].given[p])
                    => dispatched[i].args[p] = dispatched[i].given[p]
    /\ pc = "Reasoning" =>
          LET ai == CHOOSE i \in 1..Len(messages) :
                        /\ HasToolCalls(messages[i])
                        /\ \A j \in (i + 1)..Len(messages) : ~HasToolCalls(messages[j])
              calls == messages[ai].tool_calls
              ran == {dispatched[i].id : i \in 1..Len(dispatched)}
          IN  \A i, j \in 1..Len(calls) :
                  calls[i].name = calls[j].name
                      => (calls[i].id \in ran <=> calls[j].id \in ran)

\* an invoked add_expense whose amount "5x" and an invoked list_expenses whose
\* dates 13/45/2024 and 15-01-2024 reached the tools as given
C29_Witness ==
    /\ \E i \in 1..Len(dispatched) :
          /\ dispatched[i].name = "add_expense"
          /\ dispatched[i].given["amount"] = Str(<<"5", "x">>)
          /\ dispatched[i].args = dispatched[i].given
    /\ \E i \in 1..Len(dispatched) :
          /\ dispatched[i].name = "list_expenses"
          /\ dispatched[i].given["start_date"].str[3] = "/"
          /\ ~StrptimeParses(dispatched[i].given["start_date"].str)
          /\ dispatched[i].args = dispatched[i].given

\* the gating decision as a function of the text of a user message
GateOf == [t \in UserTexts \cup {""} |-> t = "add expense 50 for lunch"]

\* C30: the decision of a Reasoning step to load the MCP tool group is
\* GateOf of the text of the most recent user message of the state, whatever
\* the other messages are: two steps with the same such text decide alike.
C30_GatingIsFunctionOfLastUserText ==
    [][(pc = "Reasoning" /\ step' = step + 1)
       => \A i \in 1..Len(llmCalls') :
              llmCalls'[i].load_mcp = GateOf[LastHumanText(messages)]]_vars

\* a step that does not load the group for "what is the date" although an
\* earlier user message of the request holds a keyword
C30_Witness ==
    /\ messages[1] = HumanMessage("add expense 50 for lunch")
    /\ LastHumanText(messages) = "what is the date"
    /\ llmCalls # <<>> /\ ~llmCalls[1].load_mcp

\* C33: every tool message of the list passed to the model comes after an
\* assistant message of that list that carries the tool call with its id.
C33_ForwardedToolHasCall ==
    \A i \in 1..Len(sent) :
        sent[i].type = "tool" =>
            \E j \in 1..(i - 1) :
                /\ sent[j].type = "ai"
                /\ \E c \in 1..Len(sent[j].tool_calls) :
                      sent[j].tool_calls[c].id = sent[i].tool_call_id

(***************************************************************************)
(* Claims about the retriever registry, continued.                         *)
(***************************************************************************)
\* C34: the retriever map and the document-info map hold the same thread
\* ids in every state, and rag_tool never reads a retriever without its
\* document info, nor a document info without its retriever.
C34_MapsAgree ==
    /\ DOMAIN retrievers = DOMAIN docInfo
    /\ query.pc \in {"read_info", "done"}
          => (query.retriever = NoRetriever <=> query.info = NoInfo)

\* C35: an ingest that fails leaves both maps and the stored rows as they
\* were; the answer of rag_tool is a function of these three (RagResult), so
\* every query of every thread is answered after it as before it.
C35_FailedIngestChangesNothing ==
    [][(ingest.pc = "idle" /\ ingest'.pc = "idle" /\ ingest'.result = "failure")
          => /\ retrievers' = retrievers
             /\ docInfo' = docInfo
             /\ pgStore' = pgStore]_vars

\* an ingest failed on a thread that has a document, and a query of that thread
\* read the registry and found the document
C35_Witness ==
    /\ ingest.result = "failure"
    /\ query.pc = "done"
    /\ query.thread \in DOMAIN retrievers
    /\ query.out.kind = "found"
    /\ query.out.filename = docInfo[query.thread].filename

(***************************************************************************)
(* Claims about the response stream, continued.                            *)
(***************************************************************************)
\* C31: a request starts at most one graph run.
C31_OneRunPerRequest == bridge.runs <= 1

\* the characters of the assistant's messages in the text-delta frames
AssistantChars(fs) ==
    LET t == TextOf(fs) IN {t[i] : i \in {j \in 1..Len(t) : t[j][1] >= 1}}

C37_SomeTextDelta ==
    bridge.pc = "closed" => \E i \in 1..Len(frames) : frames[i].tag = "0"

(***************************************************************************)
(* Claims about the process state shared by the requests.                  *)
(***************************************************************************)
\* C38: the tool an assistant message asks for is in the tool set its Acting
\* step builds: the tools bound to the model in agent are among the tools
\* of safe_tool_node, the add_expense of the manual recovery included.
C38_BoundToolsAreActive ==
    \A r \in Requests :
        boot.req[r].pc = "done" =>
            /\ ActiveTools(boot.req[r].bound) \subseteq ActiveTools(boot.req[r].active)
            /\ boot.req[r].call \in ActiveTools(boot.req[r].active)

\* C39: build_graph is called at most once, and all requests get the same
\* graph object from get_chatbot.
C39_BuiltOnce ==
    /\ boot.builds <= 1
    /\ \A r1, r2 \in Requests :
          (boot.req[r1].graph # 0 /\ boot.req[r2].graph # 0)
              => boot.req[r1].graph = boot.req[r2].graph

(***************************************************************************)
(* Claims about the recovery branches of agent, continued.                 *)
(***************************************************************************)
\* C32: at most one assistant message of a turn carries the tool call with
\* the id "manual_expense_add".
C32_ManualRecoveryOnce ==
    Cardinality({i \in 1..Len(messages) :
                    /\ messages[i].type = "ai"
                    /\ \E c \in 1..Len(messages[i].tool_calls) :
                          messages[i].tool_calls[c].id = ManualCall.id}) <= 1

(***************************************************************************)
(* Claims about the session's backend fallback, continued.                 *)
(***************************************************************************)
\* C40: every process_query returns a record with a boolean success field,
\* from a stack of at most two process_query frames, and the session memory
\* grows by the user/assistant pair of the query when the call succeeds and
\* is left as it was when the call fails.
C40_ProcessQueryTotal ==
    [][nQueries' = nQueries + 1
          => /\ reply'.success \in BOOLEAN
             /\ reply'.llm_used \in {"Gemini", "Groq", "none"}
             /\ reply'.depth \in 1..2
             /\ session'.memory = IF reply'.success
                                  THEN session.memory \o MemoryPair(nQueries')
                                  ELSE session.memory]_vars

\* a call that failed without reaching Groq, then a call that failed on
\* Gemini, moved to Groq and succeeded in the nested call
C40_Witness ==
    /\ nQueries = 2
    /\ switchedAt = 2
    /\ reply.success /\ reply.depth = 2
    /\ session.memory = MemoryPair(2)
====
